---- MODULE Spec2Model ----
(***************************************************************************)
(* Paddle webhook reconciliation of cores transactions:                    *)
(* processTransactionCreated / Ready / PaymentFailed / Updated / Completed *)
(* and updateUserTransaction, over the UserTransaction store and the       *)
(* ledger purchase (purchaseCores).                                        *)
(*                                                                         *)
(* Every handler first awaits getTransactionForProviderId and only then    *)
(* checks and writes, so a delivery is two steps: ReadTransaction (the     *)
(* read, kept in the handler's local `transaction`) and Process... (the    *)
(* checks and the single database write or database transaction).  Other   *)
(* deliveries may run between the two steps.                               *)
(*                                                                         *)
(* The webhook route itself (signature test, unmarshal, switch on the      *)
(* event type, catch, acknowledgement) is RouteSpec, over the same store   *)
(* and the users' subscription flags.                                      *)
(*                                                                         *)
(* CallSpec and StoreKitSpec apply updateUserTransaction and               *)
(* updateStoreKitUserSubscription to their inputs, one call each.          *)
(* BalanceSpec, AwardSpec and LedgerSpec are the njord ledger client: the  *)
(* Redis balance cache, the circuit breaker, awardUser and awardPost.      *)
(***************************************************************************)
EXTENDS Integers, Sequences, FiniteSets, TLC

(* ---------------------------- bounds ---------------------------------- *)

\* deliveries handled in one run (also bounds the generated record ids)
MaxDeliveries == 3
\* the local clock runs over 0..MaxTime; provider timestamps are drawn from it
MaxTime == 1
\* events in a replayed sequence
MaxReplay == 4
\* webhook requests received (and possibly in flight together) in one run of
\* the route
MaxRequests == 1
\* award calls (awardUser / awardPost) made, and the cores the awarding user
\* starts with in the ledger
MaxAwards == 2
StartBalance == 2

(* ------------------------- program constants -------------------------- *)

\* enum UserTransactionStatus (numeric codes; only Success is falsy in JS)
Success == 0
Created == 201
Processing == 202
Error == 500
ErrorRecoverable == 501

\* a status parameter that was not passed (nextStatus?: ...)
Undefined == -1

Statuses == {Success, Created, Processing, Error, ErrorRecoverable}

\* JS truthiness of an optional status value: undefined and 0 are falsy
Truthy(s) == s # Undefined /\ s # 0

(* --------------------------- input domains ---------------------------- *)

Handlers == {"h1", "h2"}
ProviderIds == {"T1"}
Users == {"u1", "u2"}
Cores == {500, 700}
\* payments[0]?.errorCode; "" is a missing code (no payment, or none on it)
ErrorCodes == {"declined", "other", ""}
SubStatuses == {"draft", "ready", "billed"}
Times == 0 .. MaxTime
Ids == 1 .. MaxDeliveries

\* `null` returned by getTransactionForProviderId
NoTx == [id |-> 0, providerId |-> "", receiverId |-> "", status |-> Undefined,
         value |-> 0, updatedAt |-> 0, error |-> ""]

\* what getPaddleTransactionData extracts from an event, plus the event's own
\* fields the handlers read (eventType, data.status, payments[0].errorCode)
Events ==
  [eventType : {"TransactionCreated", "TransactionReady", "TransactionCompleted"},
   id : ProviderIds, user_id : Users, cores : Cores,
   updatedAt : {0}, status : {"draft"}, errorCode : {"other"}]
  \cup
  [eventType : {"TransactionPaymentFailed"},
   id : ProviderIds, user_id : Users, cores : {500},
   updatedAt : {0}, status : {"draft"}, errorCode : ErrorCodes]
  \cup
  [eventType : {"TransactionUpdated"},
   id : ProviderIds, user_id : Users, cores : Cores,
   updatedAt : Times, status : SubStatuses, errorCode : {"other"}]

NoEvent == [eventType |-> "", id |-> "", user_id |-> "", cores |-> 0,
            updatedAt |-> 0, status |-> "", errorCode |-> ""]

\* the route's inputs: the paddle-signature header ("" when absent; "invalid"
\* makes webhooks.unmarshal throw), and the unmarshalled event
Requests == 1 .. MaxRequests
Signatures == {"", "invalid", "valid"}
Cycles == {"monthly"}

\* User.subscriptionFlags: no subscription, or one bought through Apple StoreKit
NoSubscription == [provider |-> "", cycle |-> ""]
StoreKitSubscription == [provider |-> "storekit", cycle |-> "monthly"]

RouteTransactionEvents ==
  [eventType : {"TransactionCreated", "TransactionReady", "TransactionPaymentFailed",
                "TransactionUpdated", "TransactionCompleted"},
   id : ProviderIds, user_id : {"u1"}, cores : {500},
   updatedAt : {0}, status : {"draft"}, errorCode : {"declined"}]

\* eventData: transaction events carry `data`; subscription events carry
\* customData.user_id ("" when absent) and the plan extractSubscriptionType finds
\* in their items ("" when none); AddressCreated stands for every other type
WebhookEvents ==
  {[eventType |-> e.eventType, data |-> e, user_id |-> e.user_id, cycle |-> ""] :
     e \in RouteTransactionEvents}
  \cup
  [eventType : {"SubscriptionCreated", "SubscriptionCanceled", "SubscriptionUpdated"},
   data : {NoEvent}, user_id : {"u1", ""}, cycle : Cycles \cup {""}]
  \cup
  {[eventType |-> "AddressCreated", data |-> NoEvent, user_id |-> "", cycle |-> ""]}

NoWebhook == [eventType |-> "", data |-> NoEvent, user_id |-> "", cycle |-> ""]

\* the events tried under a signature that does not verify (the route never
\* reads them)
UnverifiedEvents ==
  {ev \in WebhookEvents :
     /\ ev.eventType \in {"TransactionCompleted", "SubscriptionCreated"}
     /\ ev.user_id = "u1"
     /\ ev.eventType = "SubscriptionCreated" => ev.cycle = "monthly"}

\* a request slot: pc none -> received -> switch -> handler -> send -> sent;
\* `floating` is the promise the route started without awaiting it; the event
\* is kept for as long as some code of the request still runs
NoRequest ==
  [pc |-> "none", signature |-> "", rawBody |-> FALSE, event |-> NoWebhook,
   transaction |-> NoTx, logged |-> "", response |-> "", floating |-> "none"]

\* the arguments of a call of updateUserTransaction, and what it gave
NoCall ==
  [stage |-> "none", transaction |-> NoTx, nextStatus |-> Undefined, data |-> NoEvent,
   err |-> "", ret |-> NoTx, stored |-> NoTx]

\* UserSubscriptionFlags as far as updateStoreKitUserSubscription goes: the
\* appAccountToken, the status and one other key; Absent is a key the object
\* does not have (or has as undefined)
Absent == "absent"
NoFlags == [appAccountToken |-> Absent, status |-> Absent, cycle |-> Absent]
\* `data` not passed
NoData == [appAccountToken |-> Absent, cycle |-> "none"]
NoStoreKitCall ==
  [stage |-> "none", before |-> NoFlags, stored |-> NoFlags, data |-> NoData,
   status |-> Absent]

\* the ledger client, the balance cache and the awards
Posts == {"p1", "p2"}
Awards == 1 .. MaxAwards
Amounts == 0 .. StartBalance
\* getRedisObject returning null
NoBalance == -1
\* no awardTransactionId
NoAward == 0
\* no UserTransaction row with that id
NoAwardTx == [receiverId |-> "", value |-> 0]
\* product.value of the award product
AwardValue == 1
\* the result of the last balance operation
NoOut == [op |-> "", user |-> "", amount |-> 0, err |-> "", ledgerCalled |-> FALSE]
\* an award call that has not been made
NoAwardCall ==
  [pc |-> "none", kind |-> "", entity |-> "", receiver |-> "", error |-> "",
   ledgerCalled |-> FALSE]

(* ------------------------------ state --------------------------------- *)

VARIABLES
  db,          \* committed UserTransaction rows: id -> row, NoTx where none
  nextId,      \* next generated primary key
  now,         \* local clock (source of updatedAt)
  handlers,    \* per in-flight delivery: pc, event, the `transaction` it read
  deliveries,  \* number of deliveries received so far
  purchases,   \* per transaction id: invocations of purchaseCores
  transfers,   \* per transaction id: ledger transfers that went through
  last,        \* the delivery that finished last: event type, outcome, the id
               \* of the row it wrote, the status it had read (Undefined: none)
  once,        \* replay: the store after each event was delivered once
  twice,       \* replay: the store after each event was delivered twice
  phase,       \* replay: how far the event sequence has got, and the clock
  requests,    \* route: per webhook request, where its handler is and what it
               \* logged and answered
  users,       \* route: User.subscriptionFlags per user
  call,        \* one call of updateUserTransaction: its arguments and result
  apple,       \* one call of updateStoreKitUserSubscription: the user's stored
               \* subscriptionFlags, the arguments, the flags stored after
  cache,       \* njord: the Redis balance entry per user, NoBalance when none
  ledger,      \* njord: the balance the ledger service holds per user
  breaker,     \* njord: garmNjordService's circuit, "closed" or "open"
  out,         \* njord: what the last balance operation returned
  awards,      \* the awardUser / awardPost calls and where each one is
  userTransactions, \* committed award UserTransaction rows, by id
  userPosts,   \* UserPost.awardTransactionId of the awarding user, per post
  transferred, \* idempotency keys of the transfers the ledger carried out
  pending,     \* cache writes started by transferCores and not settled
  unhandled    \* TRUE once a promise rejected with nothing handling it

vars == <<db, nextId, now, handlers, deliveries, purchases, transfers, last,
          once, twice, phase, requests, users, call, apple,
          cache, ledger, breaker, out, awards, userTransactions, userPosts,
          transferred, pending, unhandled>>
njordVars == <<cache, ledger, breaker, out, awards, userTransactions, userPosts,
               transferred, pending, unhandled>>
replayVars == <<once, twice, phase>>
routeVars == <<requests, users>>
extraVars == <<call, apple, njordVars>>

Idle == [pc |-> "idle", event |-> NoEvent, transaction |-> NoTx]

NoOutcome == [eventType |-> "", outcome |-> "", txId |-> 0, prior |-> Undefined]

Rows(d) == {d[i] : i \in {j \in Ids : d[j] # NoTx}}
RowsFor(d, p) == {r \in Rows(d) : r.providerId = p}

(* ---------------------- store and ledger helpers ---------------------- *)

\* getTransactionForProviderId: the rows findOne may return, or null
getTransactionForProviderId(d, providerId) ==
  IF RowsFor(d, providerId) = {} THEN {NoTx} ELSE RowsFor(d, providerId)

\* UserTransaction.updatedAt: the row's local last-modified time, set by the
\* database on every insert and update
UpdateDateColumn(row, t) == [row EXCEPT !.updatedAt = t]

\* repository.save(payload) of a payload without id: INSERT with a fresh key
RepoSave(d, nid, t, nextStatus, data) ==
  [d EXCEPT ![nid] = UpdateDateColumn(
      [id |-> nid, providerId |-> data.id, receiverId |-> data.user_id,
       status |-> nextStatus, value |-> data.cores, updatedAt |-> 0, error |-> ""], t)]

\* RepoUpdate with the status left out of the update
RepoUpdate_KeepStatus(d, id, t, nextStatus, value) ==
  IF d[id] = NoTx THEN d
  ELSE [d EXCEPT ![id] = UpdateDateColumn([@ EXCEPT !.value = value], t)]

\* repository.update({ id }, { value, status }): an undefined status is not
\* written; no row with that id, no effect
RepoUpdate(d, id, t, nextStatus, value) ==
  IF d[id] = NoTx THEN d
  ELSE [d EXCEPT ![id] = UpdateDateColumn(
          [@ EXCEPT !.value = value,
                    !.status = IF nextStatus = Undefined THEN @ ELSE nextStatus], t)]

\* repository.update({ id }, { status, flags: updateFlagsStatement({ error }) })
\* with error `Payment failed: ${paymentErrorCode || 'unknown'}`
RepoUpdateFailed(d, id, t, nextStatus, errorCode) ==
  IF d[id] = NoTx THEN d
  ELSE [d EXCEPT ![id] = UpdateDateColumn(
          [@ EXCEPT !.status = nextStatus,
                    !.error = IF errorCode = "" THEN "unknown" ELSE errorCode], t)]

\* the entity updateUserTransaction returns for an existing row
ReturnedEntity(transaction, nextStatus, data) ==
  [transaction EXCEPT !.value = data.cores,
                      !.status = IF Truthy(transaction.status)
                                 THEN transaction.status ELSE nextStatus]

\* updateUserTransaction without the 'value changed after success' check
updateUserTransaction_NoValueCheck(d, nid, t, transaction, nextStatus, data) ==
  IF transaction # NoTx /\ transaction.receiverId # data.user_id
    THEN [err |-> "Transaction receiver does not match user ID",
          db |-> d, nextId |-> nid, ret |-> NoTx]
  ELSE IF transaction = NoTx
    THEN [err |-> "", db |-> RepoSave(d, nid, t, nextStatus, data),
          nextId |-> nid + 1, ret |-> RepoSave(d, nid, t, nextStatus, data)[nid]]
  ELSE [err |-> "", db |-> RepoUpdate(d, transaction.id, t, nextStatus, data.cores),
        nextId |-> nid, ret |-> ReturnedEntity(transaction, nextStatus, data)]

\* updateUserTransaction without the receiver check
updateUserTransaction_NoReceiverCheck(d, nid, t, transaction, nextStatus, data) ==
  IF /\ transaction # NoTx
     /\ transaction.status = Success
     /\ transaction.value # data.cores
    THEN [err |-> "Transaction value changed after success",
          db |-> d, nextId |-> nid, ret |-> NoTx]
  ELSE IF transaction = NoTx
    THEN [err |-> "", db |-> RepoSave(d, nid, t, nextStatus, data),
          nextId |-> nid + 1, ret |-> RepoSave(d, nid, t, nextStatus, data)[nid]]
  ELSE [err |-> "", db |-> RepoUpdate(d, transaction.id, t, nextStatus, data.cores),
        nextId |-> nid, ret |-> ReturnedEntity(transaction, nextStatus, data)]

updateUserTransaction(d, nid, t, transaction, nextStatus, data) ==
  IF transaction # NoTx /\ transaction.receiverId # data.user_id
    THEN [err |-> "Transaction receiver does not match user ID",
          db |-> d, nextId |-> nid, ret |-> NoTx]
  ELSE IF /\ transaction # NoTx
          /\ transaction.status = Success
          /\ transaction.value # data.cores
    THEN [err |-> "Transaction value changed after success",
          db |-> d, nextId |-> nid, ret |-> NoTx]
  ELSE IF transaction = NoTx
    THEN [err |-> "", db |-> RepoSave(d, nid, t, nextStatus, data),
          nextId |-> nid + 1, ret |-> RepoSave(d, nid, t, nextStatus, data)[nid]]
  ELSE [err |-> "", db |-> RepoUpdate(d, transaction.id, t, nextStatus, data.cores),
        nextId |-> nid, ret |-> ReturnedEntity(transaction, nextStatus, data)]

checkTransactionStatusValid(transaction, validStatus) ==
  transaction.status \in validStatus

(* --------------------------- the handlers ----------------------------- *)
\* Each ...Result is the handler from after its read to its end:
\*   db, nextId  the store it leaves
\*   outcome     "ok", the warning logged before an early return, or the
\*               message of the error thrown
\*   purchased   id handed to purchaseCores (0: purchaseCores not invoked)
\*   transferred TRUE when that ledger transfer went through

Res(d, nid, outcome) ==
  [db |-> d, nextId |-> nid, outcome |-> outcome, purchased |-> 0,
   transferred |-> FALSE, txId |-> 0]

\* processTransactionCreated without the 'already exists' check
CreatedResult_NoExistsCheck(d, nid, t, transaction, ev) ==
  LET r == updateUserTransaction(d, nid, t, transaction, Created, ev)
  IN IF r.err # "" THEN Res(d, nid, r.err)
     ELSE [Res(r.db, r.nextId, "ok") EXCEPT !.txId = r.ret.id]

CreatedResult(d, nid, t, transaction, ev) ==
  IF transaction # NoTx THEN Res(d, nid, "Transaction already exists")
  ELSE LET r == updateUserTransaction(d, nid, t, transaction, Created, ev)
       IN IF r.err # "" THEN Res(d, nid, r.err)
          ELSE [Res(r.db, r.nextId, "ok") EXCEPT !.txId = r.ret.id]

\* processTransactionReady without the predecessor-status check
ReadyResult_NoStatusCheck(d, nid, t, transaction, ev) ==
  LET r == updateUserTransaction(d, nid, t, transaction, Processing, ev)
  IN IF r.err # "" THEN Res(d, nid, r.err)
     ELSE [Res(r.db, r.nextId, "ok") EXCEPT !.txId = r.ret.id]

\* processTransactionReady refusing an unknown provider id, as PaymentFailed does
ReadyResult_RequiresRecord(d, nid, t, transaction, ev) ==
  IF transaction = NoTx THEN Res(d, nid, "Transaction not found")
  ELSE IF ~checkTransactionStatusValid(transaction, {Created})
    THEN Res(d, nid, "Transaction with invalid status")
  ELSE LET r == updateUserTransaction(d, nid, t, transaction, Processing, ev)
       IN IF r.err # "" THEN Res(d, nid, r.err)
          ELSE [Res(r.db, r.nextId, "ok") EXCEPT !.txId = r.ret.id]

\* processTransactionReady accepting ErrorRecoverable as a predecessor too
ReadyResult_RetryFromRecoverable(d, nid, t, transaction, ev) ==
  IF /\ transaction # NoTx
     /\ ~checkTransactionStatusValid(transaction, {Created, ErrorRecoverable})
    THEN Res(d, nid, "Transaction with invalid status")
  ELSE LET r == updateUserTransaction(d, nid, t, transaction, Processing, ev)
       IN IF r.err # "" THEN Res(d, nid, r.err)
          ELSE [Res(r.db, r.nextId, "ok") EXCEPT !.txId = r.ret.id]

ReadyResult(d, nid, t, transaction, ev) ==
  IF transaction # NoTx /\ ~checkTransactionStatusValid(transaction, {Created})
    THEN Res(d, nid, "Transaction with invalid status")
  ELSE LET r == updateUserTransaction(d, nid, t, transaction, Processing, ev)
       IN IF r.err # "" THEN Res(d, nid, r.err)
          ELSE [Res(r.db, r.nextId, "ok") EXCEPT !.txId = r.ret.id]

\* the status mapping with every failure taken as final
FailedStatus_AlwaysError(errorCode) ==
  Error

FailedStatus(errorCode) ==
  IF errorCode = "declined" THEN ErrorRecoverable ELSE Error

\* processTransactionPaymentFailed without the predecessor-status check
PaymentFailedResult_NoStatusCheck(d, nid, t, transaction, ev) ==
  IF transaction = NoTx THEN Res(d, nid, "Transaction not found")
  ELSE [Res(RepoUpdateFailed(d, transaction.id, t, FailedStatus(ev.errorCode),
                             ev.errorCode), nid, "ok")
        EXCEPT !.txId = transaction.id]

PaymentFailedResult(d, nid, t, transaction, ev) ==
  IF transaction = NoTx THEN Res(d, nid, "Transaction not found")
  ELSE IF ~checkTransactionStatusValid(transaction, {Created, Processing})
    THEN Res(d, nid, "Transaction with invalid status")
  ELSE [Res(RepoUpdateFailed(d, transaction.id, t, FailedStatus(ev.errorCode),
                             ev.errorCode), nid, "ok")
        EXCEPT !.txId = transaction.id]

\* getUpdatedStatus with `ready` mapped like `draft`
getUpdatedStatus_ReadyAsCreated(transaction, ev) ==
  IF transaction # NoTx THEN transaction.status
  ELSE IF ev.status \in {"draft", "ready"} THEN Created
  ELSE Undefined

\* getUpdatedStatus of processTransactionUpdated
getUpdatedStatus(transaction, ev) ==
  IF transaction # NoTx THEN transaction.status
  ELSE IF ev.status = "draft" THEN Created
  ELSE IF ev.status = "ready" THEN Processing
  ELSE Undefined

\* processTransactionUpdated writing the status inferred from the provider
\* sub-status to an existing row as well
UpdatedResult_WritesEventStatus(d, nid, t, transaction, ev) ==
  IF transaction # NoTx /\ transaction.updatedAt > ev.updatedAt
    THEN Res(d, nid, "Transaction already updated")
  ELSE IF ~Truthy(getUpdatedStatus(NoTx, ev))
    THEN Res(d, nid, "Transaction update skipped")
  ELSE LET r == updateUserTransaction(d, nid, t, transaction,
                                      getUpdatedStatus(NoTx, ev), ev)
       IN IF r.err # "" THEN Res(d, nid, r.err)
          ELSE [Res(r.db, r.nextId, "ok") EXCEPT !.txId = r.ret.id]

\* processTransactionUpdated without the stale-event check
UpdatedResult_NoStaleCheck(d, nid, t, transaction, ev) ==
  IF ~Truthy(getUpdatedStatus(transaction, ev))
    THEN Res(d, nid, "Transaction update skipped")
  ELSE LET r == updateUserTransaction(d, nid, t, transaction,
                  IF transaction # NoTx THEN Undefined
                  ELSE getUpdatedStatus(transaction, ev), ev)
       IN IF r.err # "" THEN Res(d, nid, r.err)
          ELSE [Res(r.db, r.nextId, "ok") EXCEPT !.txId = r.ret.id]

UpdatedResult(d, nid, t, transaction, ev) ==
  IF transaction # NoTx /\ transaction.updatedAt > ev.updatedAt
    THEN Res(d, nid, "Transaction already updated")
  ELSE IF ~Truthy(getUpdatedStatus(transaction, ev))
    THEN Res(d, nid, "Transaction update skipped")
  ELSE LET r == updateUserTransaction(d, nid, t, transaction,
                  IF transaction # NoTx THEN Undefined
                  ELSE getUpdatedStatus(transaction, ev), ev)
       IN IF r.err # "" THEN Res(d, nid, r.err)
          ELSE [Res(r.db, r.nextId, "ok") EXCEPT !.txId = r.ret.id]

\* purchaseCores({ transaction }): one ledger transfer with the transaction's id
\* as idempotency key; it throws when the ledger call fails or the circuit
\* breaker is open
purchaseCores(transaction, ledgerOk) ==
  [purchased |-> transaction.id, transferred |-> ledgerOk]

\* processTransactionCompleted writing through `con` instead of the
\* transaction's entityManager: the write survives a failed purchase
CompletedResult_NoRollback(d, nid, t, transaction, ev, ledgerOk, notifyOk) ==
  LET r == updateUserTransaction(d, nid, t, transaction, Success, ev)
  IN IF r.err # "" THEN Res(d, nid, r.err)
     ELSE IF ~ledgerOk
       THEN [Res(r.db, r.nextId, "Ledger error") EXCEPT !.purchased = r.ret.id]
     ELSE [Res(r.db, r.nextId, IF notifyOk THEN "ok" ELSE "Notification error")
           EXCEPT !.purchased = r.ret.id, !.transferred = TRUE, !.txId = r.ret.id]

\* processTransactionCompleted with the Slack notification awaited inside
\* con.transaction: a failed notification rolls the write back
CompletedResult_NotifyInsideTransaction(d, nid, t, transaction, ev, ledgerOk, notifyOk) ==
  LET r == updateUserTransaction(d, nid, t, transaction, Success, ev)
  IN IF r.err # "" THEN Res(d, nid, r.err)
     ELSE IF ~purchaseCores(r.ret, ledgerOk).transferred
       THEN [Res(d, r.nextId, "Ledger error")
             EXCEPT !.purchased = purchaseCores(r.ret, ledgerOk).purchased]
     ELSE IF ~notifyOk
       THEN [Res(d, r.nextId, "Notification error")
             EXCEPT !.purchased = purchaseCores(r.ret, ledgerOk).purchased,
                    !.transferred = TRUE]
     ELSE [Res(r.db, r.nextId, "ok")
           EXCEPT !.purchased = purchaseCores(r.ret, ledgerOk).purchased,
                  !.transferred = TRUE, !.txId = r.ret.id]

\* con.transaction(updateUserTransaction; purchaseCores) then the Slack
\* notification; ledgerOk / notifyOk are what the two external calls do
CompletedResult(d, nid, t, transaction, ev, ledgerOk, notifyOk) ==
  LET r == updateUserTransaction(d, nid, t, transaction, Success, ev)
  IN IF r.err # "" THEN Res(d, nid, r.err)
     ELSE IF ~purchaseCores(r.ret, ledgerOk).transferred
       THEN [Res(d, r.nextId, "Ledger error")
             EXCEPT !.purchased = purchaseCores(r.ret, ledgerOk).purchased]
     ELSE [Res(r.db, r.nextId, IF notifyOk THEN "ok" ELSE "Notification error")
           EXCEPT !.purchased = purchaseCores(r.ret, ledgerOk).purchased,
                  !.transferred = TRUE, !.txId = r.ret.id]

(* ------------------------------ actions ------------------------------- *)

EmptyStore == [db |-> [i \in Ids |-> NoTx], nextId |-> 1]

InitStore ==
  /\ db = [i \in Ids |-> NoTx]
  /\ nextId = 1
  /\ now = 0
  /\ handlers = [h \in Handlers |-> Idle]
  /\ deliveries = 0
  /\ purchases = [i \in Ids |-> 0]
  /\ transfers = [i \in Ids |-> 0]
  /\ last = NoOutcome
  /\ once = EmptyStore
  /\ twice = EmptyStore
  /\ phase = [at |-> "start", n |-> 0, now |-> 0]
  /\ requests = [k \in Requests |-> NoRequest]

\* the awarding user "u1" holds StartBalance cores, nothing is cached, the
\* circuit is closed and no award was made
InitNjord ==
  /\ cache = [u \in Users |-> NoBalance]
  /\ ledger = [u \in Users |-> IF u = "u1" THEN StartBalance ELSE 0]
  /\ breaker = "closed"
  /\ out = NoOut
  /\ awards = [k \in Awards |-> NoAwardCall]
  /\ userTransactions = [k \in Awards |-> NoAwardTx]
  /\ userPosts = [p \in Posts |-> NoAward]
  /\ transferred = {}
  /\ pending = {}
  /\ unhandled = FALSE

InitExtra ==
  /\ call = NoCall
  /\ apple = NoStoreKitCall
  /\ InitNjord

Init ==
  /\ InitStore
  /\ users = [u \in Users |-> NoSubscription]
  /\ InitExtra

AllIdle == \A h \in Handlers : handlers[h].pc = "idle"

\* the router dispatches a verified event; the handler awaits its read
ReadTransaction(h, ev) ==
  /\ handlers[h].pc = "idle"
  /\ deliveries < MaxDeliveries
  /\ \E t \in getTransactionForProviderId(db, ev.id) :
       handlers' = [handlers EXCEPT ![h] = [pc |-> "read", event |-> ev, transaction |-> t]]
  /\ deliveries' = deliveries + 1
  /\ UNCHANGED <<db, nextId, now, purchases, transfers, last, replayVars, routeVars, extraVars>>

\* the handler's end: commit what Result says and record the outcome
Finish(h, r) ==
  /\ db' = r.db
  /\ nextId' = r.nextId
  /\ purchases' = IF r.purchased = 0 THEN purchases
                  ELSE [purchases EXCEPT ![r.purchased] = @ + 1]
  /\ transfers' = IF r.transferred THEN [transfers EXCEPT ![r.purchased] = @ + 1]
                  ELSE transfers
  /\ last' = [eventType |-> handlers[h].event.eventType, outcome |-> r.outcome,
              txId |-> r.txId, prior |-> handlers[h].transaction.status]
  /\ handlers' = [handlers EXCEPT ![h] = Idle]
  /\ UNCHANGED <<now, deliveries, replayVars, routeVars, extraVars>>

Reading(h, eventType) ==
  handlers[h].pc = "read" /\ handlers[h].event.eventType = eventType

processTransactionCreated(h) ==
  /\ Reading(h, "TransactionCreated")
  /\ Finish(h, CreatedResult(db, nextId, now, handlers[h].transaction, handlers[h].event))

processTransactionReady(h) ==
  /\ Reading(h, "TransactionReady")
  /\ Finish(h, ReadyResult(db, nextId, now, handlers[h].transaction, handlers[h].event))

processTransactionPaymentFailed(h) ==
  /\ Reading(h, "TransactionPaymentFailed")
  /\ Finish(h, PaymentFailedResult(db, nextId, now, handlers[h].transaction,
                                   handlers[h].event))

processTransactionUpdated(h) ==
  /\ Reading(h, "TransactionUpdated")
  /\ Finish(h, UpdatedResult(db, nextId, now, handlers[h].transaction, handlers[h].event))

processTransactionCompleted(h) ==
  /\ Reading(h, "TransactionCompleted")
  /\ \E ledgerOk \in BOOLEAN, notifyOk \in BOOLEAN :
       Finish(h, CompletedResult(db, nextId, now, handlers[h].transaction,
                                 handlers[h].event, ledgerOk, notifyOk))

Tick ==
  /\ now < MaxTime
  /\ now' = now + 1
  /\ UNCHANGED <<db, nextId, handlers, deliveries, purchases, transfers, last, replayVars, routeVars, extraVars>>

\* deliveries are handled concurrently: any idle handler may start
Next ==
  \/ \E h \in Handlers, ev \in Events : ReadTransaction(h, ev)
  \/ \E h \in Handlers : processTransactionCreated(h)
  \/ \E h \in Handlers : processTransactionReady(h)
  \/ \E h \in Handlers : processTransactionPaymentFailed(h)
  \/ \E h \in Handlers : processTransactionUpdated(h)
  \/ \E h \in Handlers : processTransactionCompleted(h)
  \/ Tick

Spec == Init /\ [][Next]_vars

\* deliveries handled one after the other: a handler starts when none runs
SeqNext ==
  \/ \E ev \in Events : AllIdle /\ ReadTransaction("h1", ev)
  \/ processTransactionCreated("h1")
  \/ processTransactionReady("h1")
  \/ processTransactionPaymentFailed("h1")
  \/ processTransactionUpdated("h1")
  \/ processTransactionCompleted("h1")
  \/ Tick

SeqSpec == Init /\ [][SeqNext]_vars

\* deliveries for two provider transaction ids, one user and one value, handled
\* one after the other
TwoProviderIds == {"T1", "T2"}

EventsTwoIds ==
  [eventType : {"TransactionCreated", "TransactionReady", "TransactionPaymentFailed",
                "TransactionUpdated", "TransactionCompleted"},
   id : TwoProviderIds, user_id : {"u1"}, cores : {500},
   updatedAt : {0}, status : {"draft"}, errorCode : {"declined"}]

TwoIdsNext ==
  \/ \E ev \in EventsTwoIds : AllIdle /\ ReadTransaction("h1", ev)
  \/ processTransactionCreated("h1")
  \/ processTransactionReady("h1")
  \/ processTransactionPaymentFailed("h1")
  \/ processTransactionUpdated("h1")
  \/ processTransactionCompleted("h1")
  \/ Tick

TwoIdsSpec == Init /\ [][TwoIdsNext]_vars

(* ------------------ replay: every event delivered twice --------------- *)

\* the router's switch on eventType, for one delivery handled on its own
Dispatch(d, nid, t, transaction, ev, ledgerOk, notifyOk) ==
  CASE ev.eventType = "TransactionCreated" -> CreatedResult(d, nid, t, transaction, ev)
    [] ev.eventType = "TransactionReady" -> ReadyResult(d, nid, t, transaction, ev)
    [] ev.eventType = "TransactionPaymentFailed" ->
         PaymentFailedResult(d, nid, t, transaction, ev)
    [] ev.eventType = "TransactionUpdated" -> UpdatedResult(d, nid, t, transaction, ev)
    [] ev.eventType = "TransactionCompleted" ->
         CompletedResult(d, nid, t, transaction, ev, ledgerOk, notifyOk)

\* one delivery from its read to its end, at local time t, nothing in between
Handle(w, ev, t, ledgerOk, notifyOk) ==
  LET transaction == CHOOSE x \in getTransactionForProviderId(w.db, ev.id) : TRUE
      r == Dispatch(w.db, w.nextId, t, transaction, ev, ledgerOk, notifyOk)
  IN [db |-> r.db, nextId |-> r.nextId]

\* Created, optional Ready, optional Updated events, then PaymentFailed or Completed
ValidNext(at, eventType) ==
  CASE at = "start" -> eventType = "TransactionCreated"
    [] at = "created" -> eventType \in {"TransactionReady", "TransactionUpdated",
                                        "TransactionPaymentFailed", "TransactionCompleted"}
    [] at = "ready" -> eventType \in {"TransactionUpdated", "TransactionPaymentFailed",
                                      "TransactionCompleted"}
    [] OTHER -> FALSE

PhaseAfter(at, eventType) ==
  CASE eventType = "TransactionCreated" -> "created"
    [] eventType = "TransactionReady" -> "ready"
    [] eventType = "TransactionUpdated" -> at
    [] OTHER -> "done"

\* The next event of a valid sequence arrives at local time t1 and is handled
\* once on `once`; on `twice` it is handled at t1 and its duplicate at t2 >= t1.
\* The ledger and Slack answer a given event the same way each time.
Replay(ev, ledgerOk, notifyOk) ==
  /\ phase.n < MaxReplay
  /\ ValidNext(phase.at, ev.eventType)
  /\ \E t1 \in phase.now .. MaxTime :
       \E t2 \in t1 .. MaxTime :
         /\ once' = Handle(once, ev, t1, ledgerOk, notifyOk)
         /\ twice' = Handle(Handle(twice, ev, t1, ledgerOk, notifyOk), ev, t2,
                            ledgerOk, notifyOk)
         /\ phase' = [at |-> PhaseAfter(phase.at, ev.eventType), n |-> phase.n + 1,
                      now |-> t2]
  /\ UNCHANGED <<db, nextId, now, handlers, deliveries, purchases, transfers, last,
                 routeVars, extraVars>>

ReplayNext ==
  \E ev \in Events, ledgerOk \in BOOLEAN, notifyOk \in BOOLEAN :
    Replay(ev, ledgerOk, notifyOk)

ReplaySpec == Init /\ [][ReplayNext]_vars

\* what the claim compares: status, value and receiver of every stored row
Stored(d) ==
  [i \in Ids |-> [status |-> d[i].status, value |-> d[i].value,
                  receiverId |-> d[i].receiverId]]

(* -------------------------- the webhook route ------------------------- *)

\* messages of the errors the transaction handlers throw (the other outcomes
\* are warnings logged before a return)
ThrownOutcomes ==
  {"Transaction already exists", "Transaction not found",
   "Transaction receiver does not match user ID",
   "Transaction value changed after success", "Ledger error", "Notification error"}

TransactionEventTypes ==
  {"TransactionCreated", "TransactionReady", "TransactionPaymentFailed",
   "TransactionUpdated", "TransactionCompleted"}

\* updateUserSubscription({ data, state }): the flags it leaves and whether it
\* throws
updateUserSubscription(us, ev, state) ==
  IF ev.user_id = "" \/ ev.user_id \notin DOMAIN us
    THEN [users |-> us, thrown |-> FALSE]
  ELSE IF us[ev.user_id].provider = "storekit"
    THEN [users |-> us, thrown |-> TRUE]
  ELSE IF ev.cycle = ""
    THEN [users |-> us, thrown |-> FALSE]
  ELSE [users |-> [us EXCEPT ![ev.user_id] =
                     IF state THEN [provider |-> "paddle", cycle |-> ev.cycle]
                     ELSE NoSubscription],
        thrown |-> FALSE]

\* planChanged(data): the stored cycle differs from the event's plan; without a
\* user id in the payload no user is found and `undefined !== plan` holds
planChanged(us, ev) ==
  IF ev.user_id = "" \/ ev.user_id \notin DOMAIN us THEN TRUE
  ELSE us[ev.user_id].cycle # ev.cycle

\* a route that hands the body to the switch without verifying its signature
Verified_SkipsVerification(signature, rawBody) ==
  IF signature = "" \/ ~rawBody
    THEN [pc |-> "send", logged |-> "Signature missing in header"]
  ELSE [pc |-> "switch", logged |-> ""]

\* the route up to the switch: `if (signature && rawRequestBody)` and the await
\* of webhooks.unmarshal, whose throw lands in the catch
Verified(signature, rawBody) ==
  IF signature = "" \/ ~rawBody
    THEN [pc |-> "send", logged |-> "Signature missing in header"]
  ELSE IF signature = "invalid"
    THEN [pc |-> "send", logged |-> "Paddle generic error"]
  ELSE [pc |-> "switch", logged |-> ""]

\* a route without the try/catch: a handler's error leaves the route's async
\* function and no acknowledgement is sent
Caught_Uncaught(thrown) ==
  [pc |-> IF thrown THEN "failed" ELSE "send",
   logged |-> IF thrown THEN "Paddle generic error" ELSE ""]

\* what the catch block does with a handler that threw
Caught(thrown) ==
  [pc |-> "send", logged |-> IF thrown THEN "Paddle generic error" ELSE ""]

\* some users already hold a StoreKit subscription when the route starts
RouteInit ==
  /\ InitStore
  /\ users \in {[u \in Users |-> NoSubscription],
                 [u \in Users |-> IF u = "u1" THEN StoreKitSubscription
                                  ELSE NoSubscription]}
  /\ InitExtra

\* a request arrives: header, raw body and (when there is a body) its event
Receive(k, signature, rawBody, ev) ==
  /\ requests[k].pc = "none"
  /\ \A j \in Requests : j < k => requests[j].pc # "none"
  /\ ev \in (IF ~rawBody THEN {NoWebhook}
             ELSE IF signature = "valid" THEN WebhookEvents
             ELSE UnverifiedEvents)
  /\ requests' = [requests EXCEPT ![k] =
                    [NoRequest EXCEPT !.pc = "received", !.signature = signature,
                                      !.rawBody = rawBody, !.event = ev]]
  /\ UNCHANGED <<db, nextId, now, handlers, deliveries, purchases, transfers, last,
                 replayVars, users, extraVars>>

\* the signature test and webhooks.unmarshal
Unmarshal(k) ==
  /\ requests[k].pc = "received"
  /\ requests' = [requests EXCEPT
                    ![k].pc = Verified(requests[k].signature, requests[k].rawBody).pc,
                    ![k].logged = Verified(requests[k].signature, requests[k].rawBody).logged]
  /\ UNCHANGED <<db, nextId, now, handlers, deliveries, purchases, transfers, last,
                 replayVars, users, extraVars>>

\* switch (eventData?.eventType): an awaited handler starts (a transaction
\* handler with its read), SubscriptionCanceled starts its Promise.all without
\* awaiting it, any other type is logged
Switch(k) ==
  /\ requests[k].pc = "switch"
  /\ LET ev == requests[k].event
     IN CASE ev.eventType \in TransactionEventTypes ->
               \E t \in getTransactionForProviderId(db, ev.data.id) :
                 requests' = [requests EXCEPT ![k].pc = "handler", ![k].transaction = t]
          [] ev.eventType \in {"SubscriptionCreated", "SubscriptionUpdated"} ->
               requests' = [requests EXCEPT ![k].pc = "handler"]
          [] ev.eventType = "SubscriptionCanceled" ->
               requests' = [requests EXCEPT ![k].pc = "send", ![k].floating = "pending"]
          [] OTHER ->
               requests' = [requests EXCEPT ![k].pc = "send"]
  /\ UNCHANGED <<db, nextId, now, handlers, deliveries, purchases, transfers, last,
                 replayVars, users, extraVars>>

\* the awaited handler runs to its end; what it throws lands in the catch
AwaitHandler(k) ==
  /\ requests[k].pc = "handler"
  /\ \E ledgerOk \in BOOLEAN, notifyOk \in BOOLEAN, analyticsOk \in BOOLEAN :
       LET ev == requests[k].event
       IN IF ev.eventType \in TransactionEventTypes
            THEN LET r == Dispatch(db, nextId, now, requests[k].transaction, ev.data,
                                   ledgerOk, notifyOk)
                     thrown == \/ r.outcome \in ThrownOutcomes
                               \/ ev.eventType = "TransactionCompleted" /\ ~analyticsOk
                 IN /\ db' = r.db
                    /\ nextId' = r.nextId
                    /\ purchases' = IF r.purchased = 0 THEN purchases
                                    ELSE [purchases EXCEPT ![r.purchased] = @ + 1]
                    /\ transfers' = IF r.transferred
                                    THEN [transfers EXCEPT ![r.purchased] = @ + 1]
                                    ELSE transfers
                    /\ last' = [eventType |-> ev.eventType, outcome |-> r.outcome,
                                txId |-> r.txId,
                                prior |-> requests[k].transaction.status]
                    /\ requests' = [requests EXCEPT ![k].pc = Caught(thrown).pc,
                                                    ![k].logged = Caught(thrown).logged]
                    /\ users' = users
            ELSE LET changed == \/ ev.eventType = "SubscriptionCreated"
                                \/ planChanged(users, ev)
                     r == IF changed THEN updateUserSubscription(users, ev, TRUE)
                          ELSE [users |-> users, thrown |-> FALSE]
                     thrown == \/ r.thrown
                               \/ /\ ev.eventType = "SubscriptionUpdated"
                                  /\ changed
                                  /\ ~analyticsOk
                 IN /\ users' = r.users
                    /\ requests' = [requests EXCEPT ![k].pc = Caught(thrown).pc,
                                                    ![k].logged = Caught(thrown).logged]
                    /\ UNCHANGED <<db, nextId, purchases, transfers, last>>
  /\ UNCHANGED <<now, handlers, deliveries, replayVars, extraVars>>

\* the Promise.all of SubscriptionCanceled settles on its own; nothing awaits
\* or catches it
SettleFloating(k) ==
  /\ requests[k].floating = "pending"
  /\ \E analyticsOk \in BOOLEAN :
       LET r == updateUserSubscription(users, requests[k].event, FALSE)
       IN /\ users' = r.users
          /\ requests' = [requests EXCEPT
                            ![k].floating =
                              IF r.thrown \/ ~analyticsOk THEN "rejected" ELSE "settled",
                            ![k].event =
                              IF requests[k].pc = "sent" THEN NoWebhook ELSE @]
  /\ UNCHANGED <<db, nextId, now, handlers, deliveries, purchases, transfers, last,
                 replayVars, extraVars>>

\* res.send('Processed webhook event')
Send(k) ==
  /\ requests[k].pc = "send"
  /\ requests' = [requests EXCEPT
                    ![k].pc = "sent",
                    ![k].response = "Processed webhook event",
                    ![k].transaction = NoTx,
                    ![k].event =
                      IF requests[k].floating = "pending" THEN @ ELSE NoWebhook]
  /\ UNCHANGED <<db, nextId, now, handlers, deliveries, purchases, transfers, last,
                 replayVars, users, extraVars>>

RouteNext ==
  \/ \E k \in Requests, signature \in Signatures, rawBody \in BOOLEAN,
        ev \in WebhookEvents \cup {NoWebhook} : Receive(k, signature, rawBody, ev)
  \/ \E k \in Requests : Unmarshal(k)
  \/ \E k \in Requests : Switch(k)
  \/ \E k \in Requests : AwaitHandler(k)
  \/ \E k \in Requests : SettleFloating(k)
  \/ \E k \in Requests : Send(k)

\* the next step of request k's async function (at most one is enabled)
RequestStep(k) ==
  Unmarshal(k) \/ Switch(k) \/ AwaitHandler(k) \/ Send(k)

\* every continuation that is ready to run is run by the event loop, and every
\* awaited call settles
RouteFairness ==
  \A k \in Requests :
    /\ WF_vars(RequestStep(k))
    /\ WF_vars(SettleFloating(k))

RouteSpec == RouteInit /\ [][RouteNext]_vars /\ RouteFairness

(* --------------- updateUserTransaction called on its own -------------- *)
\* the rows getTransactionForProviderId can hand to a handler
StoredRows ==
  [id : {1}, providerId : ProviderIds, receiverId : Users, status : Statuses,
   value : Cores, updatedAt : {0}, error : {""}]

\* the (transaction, nextStatus) pairs the five handlers pass: Created with no
\* row; Ready with no row or a Created one; Updated with no row and an inferred
\* status, or with a row and no status; Completed with anything
HandlerCalls ==
  {<<NoTx, Created>>, <<NoTx, Processing>>, <<NoTx, Success>>}
  \cup {<<row, Processing>> : row \in {r \in StoredRows : r.status = Created}}
  \cup {<<row, Undefined>> : row \in {r \in StoredRows : Truthy(r.status)}}
  \cup {<<row, Success>> : row \in StoredRows}

CallData ==
  [eventType : {""}, id : ProviderIds, user_id : Users, cores : Cores,
   updatedAt : {0}, status : {""}, errorCode : {""}]

\* the store holding `transaction` and nothing else
StoreWith(transaction) ==
  [i \in Ids |-> IF i = transaction.id THEN transaction ELSE NoTx]

CallInit ==
  /\ InitStore
  /\ users = [u \in Users |-> NoSubscription]
  /\ apple = NoStoreKitCall
  /\ InitNjord
  /\ \E c \in HandlerCalls, data \in CallData :
       call = [NoCall EXCEPT !.stage = "called", !.transaction = c[1],
                             !.nextStatus = c[2], !.data = data]

\* one call of updateUserTransaction; `stored` is the row read back afterwards
CallUpdateUserTransaction ==
  /\ call.stage = "called"
  /\ LET first == IF call.transaction = NoTx THEN 1 ELSE 2
         r == updateUserTransaction(StoreWith(call.transaction), first, MaxTime,
                                    call.transaction, call.nextStatus, call.data)
     IN call' = [call EXCEPT !.stage = IF r.err = "" THEN "returned" ELSE "thrown",
                             !.err = r.err,
                             !.ret = r.ret,
                             !.stored = IF r.err = "" THEN r.db[r.ret.id]
                                        ELSE call.transaction]
  /\ UNCHANGED <<db, nextId, now, handlers, deliveries, purchases, transfers, last,
                 replayVars, routeVars, apple, njordVars>>

CallSpec == CallInit /\ [][CallUpdateUserTransaction]_vars

(* ---------------------- the StoreKit subscription --------------------- *)
\* the subscriptionFlags a user has stored, and the arguments of the call
StoredFlags ==
  [appAccountToken : {Absent, "A"}, status : {Absent, "active"},
   cycle : {Absent, "monthly"}]
StoreKitData ==
  {NoData} \cup [appAccountToken : {Absent, "A", "B"}, cycle : {"monthly", "yearly"}]
StoreKitStatuses == {Absent, "active", "cancelled", "expired"}

\* updateSubscriptionFlags(update): the statement  subscriptionFlags || update,
\* whose right side is JSON and so has no key for an undefined value
updateSubscriptionFlags(flags, update) ==
  [k \in DOMAIN flags |-> IF update[k] # Absent THEN update[k] ELSE flags[k]]

\* the subscriptionFlags column after updateStoreKitUserSubscription
updateStoreKitUserSubscription(flags, data, status) ==
  IF data = NoData THEN flags
  ELSE LET clone == IF data.appAccountToken # Absent
                      THEN [data EXCEPT !.appAccountToken = Absent]
                    ELSE data
       IN IF status = "expired"
            THEN [appAccountToken |-> data.appAccountToken, status |-> status,
                  cycle |-> Absent]
          ELSE updateSubscriptionFlags(flags,
                 [appAccountToken |-> clone.appAccountToken, status |-> status,
                  cycle |-> clone.cycle])

StoreKitInit ==
  /\ InitStore
  /\ users = [u \in Users |-> NoSubscription]
  /\ call = NoCall
  /\ InitNjord
  /\ \E flags \in StoredFlags, data \in StoreKitData, status \in StoreKitStatuses :
       apple = [stage |-> "called", before |-> flags, stored |-> flags,
                data |-> data, status |-> status]

CallUpdateStoreKitUserSubscription ==
  /\ apple.stage = "called"
  /\ apple' = [apple EXCEPT
                 !.stage = "done",
                 !.stored = updateStoreKitUserSubscription(apple.stored, apple.data,
                                                           apple.status)]
  /\ UNCHANGED <<db, nextId, now, handlers, deliveries, purchases, transfers, last,
                 replayVars, routeVars, call, njordVars>>

StoreKitSpec == StoreKitInit /\ [][CallUpdateStoreKitUserSubscription]_vars

(* ------------- the ledger client, the balance cache, awards ----------- *)
\* what the ledger answers to a request that reaches it
LedgerReplies == {"ok", "error"}
\* ctx.userId of every award call; the users an award can name, "ghost" being
\* one isSpecialUser accepts; the products
Sender == "u1"
Receivers == Users \cup {"ghost"}
Products == {"award", "other"}
Author(post) == IF post = "p1" THEN "u2" ELSE "u1"

\* garmNjordService.execute(fn) around a ledger request: with the circuit open
\* fn is not run and BrokenCircuitError is thrown
Execute(circuit, reply) ==
  IF circuit = "open" THEN [err |-> "BrokenCircuitError", ledgerCalled |-> FALSE]
  ELSE IF reply = "error" THEN [err |-> "Ledger error", ledgerCalled |-> TRUE]
  ELSE [err |-> "", ledgerCalled |-> TRUE]

\* getFreshBalance: a user without an account has balance 0
getFreshBalance(balance, circuit, reply) ==
  LET r == Execute(circuit, reply)
  IN [err |-> r.err, ledgerCalled |-> r.ledgerCalled,
      amount |-> IF r.err = "" THEN balance ELSE 0]

BalanceResult(amount, err, ledgerCalled, entry) ==
  [amount |-> amount, err |-> err, ledgerCalled |-> ledgerCalled, cache |-> entry]

\* getBalance letting BrokenCircuitError through to its caller
getBalance_RethrowsBrokenCircuit(cached, balance, circuit, reply, writeOk) ==
  LET fresh == getFreshBalance(balance, circuit, reply)
  IN IF cached # NoBalance THEN BalanceResult(cached, "", FALSE, cached)
     ELSE IF fresh.err # "" THEN BalanceResult(0, fresh.err, fresh.ledgerCalled, cached)
     ELSE IF ~writeOk THEN BalanceResult(0, "Redis error", TRUE, cached)
     ELSE BalanceResult(fresh.amount, "", TRUE, fresh.amount)

\* getBalance that does not store what it fetched
getBalance_NoCacheWrite(cached, balance, circuit, reply, writeOk) ==
  LET fresh == getFreshBalance(balance, circuit, reply)
  IN IF cached # NoBalance THEN BalanceResult(cached, "", FALSE, cached)
     ELSE IF fresh.err = "BrokenCircuitError" THEN BalanceResult(0, "", FALSE, cached)
     ELSE IF fresh.err # "" THEN BalanceResult(0, fresh.err, fresh.ledgerCalled, cached)
     ELSE BalanceResult(fresh.amount, "", TRUE, cached)

\* getBalance: `cached` is the Redis entry (the JSON text of {amount}, so an
\* entry holding amount 0 is an entry), `cache` the entry it leaves
getBalance(cached, balance, circuit, reply, writeOk) ==
  LET fresh == getFreshBalance(balance, circuit, reply)
  IN IF cached # NoBalance THEN BalanceResult(cached, "", FALSE, cached)
     ELSE IF fresh.err = "BrokenCircuitError" THEN BalanceResult(0, "", FALSE, cached)
     ELSE IF fresh.err # "" THEN BalanceResult(0, fresh.err, fresh.ledgerCalled, cached)
     ELSE IF ~writeOk THEN BalanceResult(0, "Redis error", TRUE, cached)
     ELSE BalanceResult(fresh.amount, "", TRUE, fresh.amount)

\* transferCores up to the return of njordClient.transfer: `allowed` is
\* ctx.isTeamMember || !isProd, `balance` what the sender holds
transferCores(circuit, balance, allowed, reply) ==
  IF ~allowed THEN [err |-> "Not allowed for you yet", ledgerCalled |-> FALSE]
  ELSE IF circuit = "closed" /\ balance < AwardValue
    THEN [err |-> "Ledger error", ledgerCalled |-> TRUE]
  ELSE Execute(circuit, reply)

\* con.transaction writing straight to the store: nothing is undone
Transaction_NoRollback(before, after, err) == after

\* con.transaction(fn): what fn wrote is stored when fn returns and undone
\* when it throws
Transaction(before, after, err) == IF err = "" THEN after ELSE before

canAward(userId, receiverId) ==
  IF userId = receiverId THEN "Can not award yourself"
  ELSE IF receiverId = "ghost" THEN "Can not award this user"
  ELSE ""

\* the checks of awardUser and awardPost before con.transaction, on what they
\* read: the error thrown, "" when none
Refusal(kind, receiver, product, awardTransactionId) ==
  IF canAward(Sender, receiver) # "" THEN canAward(Sender, receiver)
  ELSE IF product # "award" THEN "Can not award this product"
  ELSE IF kind = "post" /\ awardTransactionId # NoAward THEN "Post already awarded"
  ELSE ""

Quiet == out' = NoOut

\* awardUser / awardPost from the call to the start of con.transaction
AwardRead(k, kind, entity, product) ==
  /\ awards[k].pc = "none"
  /\ \A j \in Awards : j < k => awards[j].pc # "none"
  /\ LET receiver == IF kind = "user" THEN entity ELSE Author(entity)
         seen == IF kind = "post" THEN userPosts[entity] ELSE NoAward
         err == Refusal(kind, receiver, product, seen)
     IN awards' = [awards EXCEPT ![k] =
                     [pc |-> IF err = "" THEN "tx" ELSE "failed", kind |-> kind,
                      entity |-> entity, receiver |-> receiver, error |-> err,
                      ledgerCalled |-> FALSE]]
  /\ Quiet
  /\ UNCHANGED <<cache, ledger, breaker, userTransactions, userPosts, transferred,
                 pending, unhandled>>
  /\ UNCHANGED <<db, nextId, now, handlers, deliveries, purchases, transfers, last,
                 replayVars, routeVars, call, apple>>

\* con.transaction of awardUser / awardPost: createTransaction, the UserPost
\* upsert of awardPost, transferCores; award k's row gets id k
AwardCommit(k) ==
  /\ awards[k].pc = "tx"
  /\ \E allowed \in BOOLEAN, reply \in LedgerReplies, opens \in BOOLEAN :
       LET c == awards[k]
           t == transferCores(breaker, ledger[Sender], allowed, reply)
           before == [userTransactions |-> userTransactions, userPosts |-> userPosts]
           after ==
             [userTransactions |->
                [userTransactions EXCEPT
                   ![k] = [receiverId |-> c.receiver, value |-> AwardValue]],
              userPosts |-> IF c.kind = "post"
                              THEN [userPosts EXCEPT ![c.entity] = k]
                            ELSE userPosts]
           stored == Transaction(before, after, t.err)
           moved == [ledger EXCEPT ![Sender] = @ - AwardValue,
                                   ![c.receiver] = @ + AwardValue]
           sent == t.err = "" /\ t.ledgerCalled
       IN /\ (opens => t.err = "Ledger error")
          /\ userTransactions' = stored.userTransactions
          /\ userPosts' = stored.userPosts
          /\ ledger' = IF sent THEN moved ELSE ledger
          /\ transferred' = IF sent THEN transferred \cup {k} ELSE transferred
          /\ pending' = IF sent
                          THEN pending \cup {[user |-> u, amount |-> moved[u]] :
                                               u \in {Sender, c.receiver}}
                        ELSE pending
          /\ breaker' = IF opens THEN "open" ELSE breaker
          /\ awards' = [awards EXCEPT ![k] =
                          [c EXCEPT !.pc = IF t.err = "" THEN "done" ELSE "failed",
                                    !.error = t.err,
                                    !.ledgerCalled = t.ledgerCalled]]
  /\ Quiet
  /\ UNCHANGED <<cache, unhandled>>
  /\ UNCHANGED <<db, nextId, now, handlers, deliveries, purchases, transfers, last,
                 replayVars, routeVars, call, apple>>

\* one of the updateBalanceCache calls transferCores started settles: nothing
\* awaits it, so its rejection has no handler
SettleCacheWrite(w, writeOk) ==
  /\ w \in pending
  /\ pending' = pending \ {w}
  /\ cache' = IF writeOk THEN [cache EXCEPT ![w.user] = w.amount] ELSE cache
  /\ unhandled' = (unhandled \/ ~writeOk)
  /\ Quiet
  /\ UNCHANGED <<ledger, breaker, awards, userTransactions, userPosts, transferred>>
  /\ UNCHANGED <<db, nextId, now, handlers, deliveries, purchases, transfers, last,
                 replayVars, routeVars, call, apple>>

GetBalance(u) ==
  /\ \E reply \in LedgerReplies, writeOk \in BOOLEAN, opens \in BOOLEAN :
       LET r == getBalance(cache[u], ledger[u], breaker, reply, writeOk)
       IN /\ (opens => r.err = "Ledger error")
          /\ cache' = [cache EXCEPT ![u] = r.cache]
          /\ breaker' = IF opens THEN "open" ELSE breaker
          /\ out' = [op |-> "getBalance", user |-> u, amount |-> r.amount,
                     err |-> r.err, ledgerCalled |-> r.ledgerCalled]
  /\ UNCHANGED <<ledger, awards, userTransactions, userPosts, transferred, pending,
                 unhandled>>
  /\ UNCHANGED <<db, nextId, now, handlers, deliveries, purchases, transfers, last,
                 replayVars, routeVars, call, apple>>

UpdateBalanceCache(u, v) ==
  /\ cache' = [cache EXCEPT ![u] = v]
  /\ out' = [NoOut EXCEPT !.op = "updateBalanceCache", !.user = u, !.amount = v]
  /\ UNCHANGED <<ledger, breaker, awards, userTransactions, userPosts, transferred,
                 pending, unhandled>>
  /\ UNCHANGED <<db, nextId, now, handlers, deliveries, purchases, transfers, last,
                 replayVars, routeVars, call, apple>>

ExpireBalanceCache(u) ==
  /\ cache' = [cache EXCEPT ![u] = NoBalance]
  /\ out' = [NoOut EXCEPT !.op = "expireBalanceCache", !.user = u]
  /\ UNCHANGED <<ledger, breaker, awards, userTransactions, userPosts, transferred,
                 pending, unhandled>>
  /\ UNCHANGED <<db, nextId, now, handlers, deliveries, purchases, transfers, last,
                 replayVars, routeVars, call, apple>>

\* coresBalanceExpirationSeconds pass: Redis drops the entry
CacheExpires(u) ==
  /\ cache[u] # NoBalance
  /\ cache' = [cache EXCEPT ![u] = NoBalance]
  /\ Quiet
  /\ UNCHANGED <<ledger, breaker, awards, userTransactions, userPosts, transferred,
                 pending, unhandled>>
  /\ UNCHANGED <<db, nextId, now, handlers, deliveries, purchases, transfers, last,
                 replayVars, routeVars, call, apple>>

\* halfOpenAfter passes: the circuit lets requests through again
BreakerHalfOpens ==
  /\ breaker = "open"
  /\ breaker' = "closed"
  /\ Quiet
  /\ UNCHANGED <<cache, ledger, awards, userTransactions, userPosts, transferred,
                 pending, unhandled>>
  /\ UNCHANGED <<db, nextId, now, handlers, deliveries, purchases, transfers, last,
                 replayVars, routeVars, call, apple>>

NjordInit ==
  /\ InitStore
  /\ users = [u \in Users |-> NoSubscription]
  /\ call = NoCall
  /\ apple = NoStoreKitCall
  /\ InitNjord

BalanceNext ==
  \/ \E u \in Users : GetBalance(u)
  \/ \E u \in Users, v \in Amounts : UpdateBalanceCache(u, v)
  \/ \E u \in Users : ExpireBalanceCache(u)
  \/ \E u \in Users : CacheExpires(u)
  \/ BreakerHalfOpens

BalanceSpec == NjordInit /\ [][BalanceNext]_vars

AwardNext ==
  \/ \E k \in Awards, entity \in Receivers, product \in Products :
       AwardRead(k, "user", entity, product)
  \/ \E k \in Awards, entity \in Posts, product \in Products :
       AwardRead(k, "post", entity, product)
  \/ \E k \in Awards : AwardCommit(k)
  \/ \E w \in pending, writeOk \in BOOLEAN : SettleCacheWrite(w, writeOk)
  \/ BreakerHalfOpens

AwardSpec == NjordInit /\ [][AwardNext]_vars

\* balance reads beside awardUser calls that pass the checks before
\* con.transaction
LedgerNext ==
  \/ \E k \in Awards : AwardRead(k, "user", "u2", "award")
  \/ \E k \in Awards : AwardCommit(k)
  \/ \E w \in pending, writeOk \in BOOLEAN : SettleCacheWrite(w, writeOk)
  \/ \E u \in Users : GetBalance(u)
  \/ BreakerHalfOpens

LedgerSpec == NjordInit /\ [][LedgerNext]_vars

(* ============================== claims ================================ *)

\* handler h runs from its read to its end in this step
Finishes(h) == handlers[h].pc = "read" /\ handlers'[h].pc = "idle"
FinishesEvent(h, eventType) == Reading(h, eventType) /\ handlers'[h].pc = "idle"

\* C1 (as claimed): a Completed event redelivered after the first delivery
\* finished, when the stored record is already Success with the same value and
\* receiver, does not invoke purchaseCores again.
C1_NoPurchaseOnRedelivery ==
  [][\A h \in Handlers :
       (/\ FinishesEvent(h, "TransactionCompleted")
        /\ handlers[h].transaction # NoTx
        /\ handlers[h].transaction = db[handlers[h].transaction.id]
        /\ handlers[h].transaction.status = Success
        /\ handlers[h].transaction.value = handlers[h].event.cores
        /\ handlers[h].transaction.receiverId = handlers[h].event.user_id)
       => purchases' = purchases]_vars

\* C2 (as claimed): once a stored transaction is Success, every later event that
\* carries a different cores value raises 'Transaction value changed after
\* success' and leaves store and ledger untouched.
C2_EveryEventRaisesValueChanged ==
  [][\A h \in Handlers :
       (/\ Finishes(h)
        /\ handlers[h].transaction # NoTx
        /\ handlers[h].transaction.status = Success
        /\ handlers[h].transaction.value # handlers[h].event.cores)
       => /\ last'.outcome = "Transaction value changed after success"
          /\ db' = db
          /\ purchases' = purchases]_vars

\* C2 (amended): with deliveries handled one after the other, once a stored
\* transaction is Success no step changes its value or status; an event that
\* carries a different cores value writes nothing and makes no ledger call; and
\* a Completed event for the stored receiver raises 'Transaction value changed
\* after success'.
C2_ValueImmutableAfterSuccess ==
  [][/\ \A i \in Ids :
          (db[i] # NoTx /\ db[i].status = Success)
          => (db'[i].value = db[i].value /\ db'[i].status = Success)
     /\ \A h \in Handlers :
          (/\ Finishes(h)
           /\ handlers[h].transaction # NoTx
           /\ handlers[h].transaction.status = Success
           /\ handlers[h].transaction.value # handlers[h].event.cores)
          => /\ db' = db
             /\ purchases' = purchases
             /\ (/\ handlers[h].event.eventType = "TransactionCompleted"
                 /\ handlers[h].transaction.receiverId = handlers[h].event.user_id)
                => last'.outcome = "Transaction value changed after success"]_vars

\* C2 witness: a Completed event with another value was refused on a Success row
C2_Witness ==
  /\ last.eventType = "TransactionCompleted"
  /\ last.outcome = "Transaction value changed after success"
  /\ last.prior = Success
  /\ \E i \in Ids : db[i] # NoTx /\ db[i].status = Success

\* C3: when purchaseCores is invoked and the ledger transfer does not go through
\* (ledger error or open circuit), the store is exactly what it was before the
\* Completed handler: an updated row keeps its prior fields, an inserted row is
\* absent.
C3_LedgerFailureRollsBack ==
  [][\A h \in Handlers :
       (/\ FinishesEvent(h, "TransactionCompleted")
        /\ purchases' # purchases
        /\ transfers' = transfers)
       => db' = db]_vars

\* C3 witness: a Completed delivery failed at the ledger and left a record that
\* is not Success, and the purchase was attempted
C3_Witness ==
  /\ last.eventType = "TransactionCompleted"
  /\ last.outcome = "Ledger error"
  /\ \E i \in Ids : db[i] # NoTx /\ db[i].status = Processing /\ purchases[i] = 1

\* C4: a Completed handler that finishes without error leaves the row it wrote
\* at status Success with the event's value, whatever status it had read.
C4_CompletedForcesSuccess ==
  (last.eventType = "TransactionCompleted" /\ last.outcome = "ok")
  => /\ last.txId \in Ids
     /\ db[last.txId] # NoTx
     /\ db[last.txId].status = Success
     /\ transfers[last.txId] >= 1

\* C4 witness: Created(500), Ready, Completed ended Success with value 500 and
\* one transfer
C4_Witness ==
  /\ last.eventType = "TransactionCompleted"
  /\ last.outcome = "ok"
  /\ last.prior = Processing
  /\ deliveries = 3
  /\ db[1].status = Success /\ db[1].value = 500
  /\ transfers[1] = 1

\* C5 (as claimed): the store holds at most one transaction per provider id.
C5_AtMostOnePerProviderId ==
  \A p \in ProviderIds : Cardinality(RowsFor(db, p)) <= 1

\* C6 (as claimed): a Ready or PaymentFailed handler writes a status only to a
\* row whose status at the moment of the write is in its valid predecessor set.
C6_WriteOnlyFromValidPredecessor ==
  [][\A h \in Handlers :
       /\ (/\ FinishesEvent(h, "TransactionPaymentFailed")
           /\ db' # db)
          => db[handlers[h].transaction.id].status \in {Created, Processing}
       /\ (/\ FinishesEvent(h, "TransactionReady")
           /\ handlers[h].transaction # NoTx
           /\ db' # db)
          => db[handlers[h].transaction.id].status = Created]_vars

\* C7 (as claimed): a Completed handler that finds its transaction already moved
\* to Success by a concurrent Completed handler (after its own read) does not
\* call the ledger.
C7_TransferGatedByTransition ==
  [][\A h \in Handlers :
       (/\ FinishesEvent(h, "TransactionCompleted")
        /\ handlers[h].transaction.status # Success
        /\ \E r \in RowsFor(db, handlers[h].event.id) :
             r.status = Success /\ transfers[r.id] >= 1)
       => purchases' = purchases]_vars

\* C8 (as claimed): after a valid sequence (Created, optional Ready, optional
\* Updated events, then PaymentFailed or Completed), the store where every event
\* was delivered twice equals the store where each was delivered once, in
\* status, value and receiver.
C8_DuplicatedDeliverySameFinalState ==
  phase.at = "done" => Stored(once.db) = Stored(twice.db)

\* C9: with deliveries handled one after the other, a row that is Success stays
\* Success, and a row that is Processing does not return to Created.
C9_NoBackwardStatus ==
  [][\A i \in Ids :
       /\ (db[i] # NoTx /\ db[i].status = Success) => db'[i].status = Success
       /\ (db[i] # NoTx /\ db[i].status = Processing) => db'[i].status # Created]_vars

\* C9 witness: a Ready event was handled on a Success row, which is still Success
C9_Witness ==
  /\ last.eventType = "TransactionReady"
  /\ last.prior = Success
  /\ \E i \in Ids : db[i] # NoTx /\ db[i].status = Success

\* C10 (as claimed): once a row is Error no event changes its status and no
\* ledger call is made for it.
C10_ErrorIsTerminal ==
  [][\A i \in Ids :
       (db[i] # NoTx /\ db[i].status = Error)
       => (db'[i].status = Error /\ purchases'[i] = purchases[i])]_vars

\* C10 (amended): once a row is Error, no Created, Ready, PaymentFailed or
\* Updated event changes its status or makes a ledger call for it; only a
\* Completed event does (it makes the purchase and moves the row to Success).
C10_ErrorLeftOnlyByCompleted ==
  [][\A i \in Ids :
       (db[i] # NoTx /\ db[i].status = Error)
       => \/ (db'[i].status = Error /\ purchases'[i] = purchases[i])
          \/ /\ \E h \in Handlers : FinishesEvent(h, "TransactionCompleted")
             /\ purchases'[i] = purchases[i] + 1
             /\ db'[i].status \in {Error, Success}
             /\ (db'[i].status = Success <=> transfers'[i] = transfers[i] + 1)]_vars

\* C10 witness: a PaymentFailed event was handled on an Error row, still Error
C10_Witness ==
  /\ last.eventType = "TransactionPaymentFailed"
  /\ last.prior = Error
  /\ \E i \in Ids : db[i] # NoTx /\ db[i].status = Error /\ purchases[i] = 0

\* C11 (as claimed): a Created or Ready event for the provider id of a stored
\* ErrorRecoverable transaction (same receiver) takes that record back to
\* Created or Processing.
C11_RecoverableReentersByCreatedOrReady ==
  [][\A h \in Handlers :
       (/\ FinishesEvent(h, "TransactionCreated") \/ FinishesEvent(h, "TransactionReady")
        /\ handlers[h].transaction # NoTx
        /\ handlers[h].transaction.status = ErrorRecoverable
        /\ handlers[h].transaction.receiverId = handlers[h].event.user_id)
       => db'[handlers[h].transaction.id].status \in {Created, Processing}]_vars

\* C11 (amended): a Created event for the provider id of a stored
\* ErrorRecoverable transaction fails with 'Transaction already exists' and a
\* Ready event is dropped with 'Transaction with invalid status', both leaving
\* the store unchanged; the record's status leaves ErrorRecoverable only through
\* a Completed event, to Success.
C11_RecoverableLeftOnlyByCompleted ==
  [][/\ \A h \in Handlers :
          (/\ Finishes(h)
           /\ handlers[h].transaction # NoTx
           /\ handlers[h].transaction.status = ErrorRecoverable)
          => /\ handlers[h].event.eventType = "TransactionCreated"
                => (db' = db /\ last'.outcome = "Transaction already exists")
             /\ handlers[h].event.eventType = "TransactionReady"
                => (db' = db /\ last'.outcome = "Transaction with invalid status")
     /\ \A i \in Ids :
          (db[i] # NoTx /\ db[i].status = ErrorRecoverable)
          => \/ db'[i].status = ErrorRecoverable
             \/ /\ \E h \in Handlers : FinishesEvent(h, "TransactionCompleted")
                /\ db'[i].status = Success]_vars

\* C11 witness: a Ready event was handled on an ErrorRecoverable row, which is
\* still ErrorRecoverable
C11_Witness ==
  /\ last.eventType = "TransactionReady"
  /\ last.prior = ErrorRecoverable
  /\ last.outcome = "Transaction with invalid status"
  /\ \E i \in Ids : db[i] # NoTx /\ db[i].status = ErrorRecoverable

\* the store after inserting one row for event ev with the given status, every
\* other row as it was
InsertsOne(ev, status) ==
  /\ db[nextId] = NoTx
  /\ db'[nextId].providerId = ev.id
  /\ db'[nextId].receiverId = ev.user_id
  /\ db'[nextId].value = ev.cores
  /\ db'[nextId].status = status
  /\ \A j \in Ids \ {nextId} : db'[j] = db[j]

\* C12 (as claimed): a Ready event on a stored record that is not Created is
\* rejected with the invalid-status warning and leaves the store unchanged; on
\* a Created record it sets the status to Processing; with no record it inserts
\* one with status Processing.
C12_ReadyRejectsOrAdvances ==
  [][\A h \in Handlers :
       FinishesEvent(h, "TransactionReady")
       => LET transaction == handlers[h].transaction
          IN CASE transaction = NoTx -> InsertsOne(handlers[h].event, Processing)
               [] transaction # NoTx /\ transaction.status = Created ->
                    db'[transaction.id].status = Processing
               [] OTHER ->
                    db' = db /\ last'.outcome = "Transaction with invalid status"]_vars

\* C12 (amended): as claimed, except that on a Created record the status is set
\* to Processing (and the value to the event's) only when the event's user id
\* is the record's receiver; otherwise the handler raises 'Transaction receiver
\* does not match user ID' and the store is unchanged.
C12_ReadyRejectsOrAdvancesForReceiver ==
  [][\A h \in Handlers :
       FinishesEvent(h, "TransactionReady")
       => LET transaction == handlers[h].transaction
              ev == handlers[h].event
          IN CASE transaction = NoTx ->
                    InsertsOne(ev, Processing) /\ last'.outcome = "ok"
               [] transaction # NoTx /\ transaction.status = Created ->
                    IF transaction.receiverId = ev.user_id
                      THEN /\ db'[transaction.id] =
                                [db[transaction.id] EXCEPT !.status = Processing,
                                                           !.value = ev.cores,
                                                           !.updatedAt = now]
                           /\ \A j \in Ids \ {transaction.id} : db'[j] = db[j]
                           /\ last'.outcome = "ok"
                      ELSE /\ db' = db
                           /\ last'.outcome = "Transaction receiver does not match user ID"
               [] OTHER ->
                    db' = db /\ last'.outcome = "Transaction with invalid status"]_vars

\* C12 witness: a Ready event was handled on a Created row, now Processing
C12_Witness ==
  /\ last.eventType = "TransactionReady"
  /\ last.prior = Created
  /\ last.outcome = "ok"
  /\ last.txId \in Ids
  /\ db[last.txId].status = Processing

\* C13: an Updated event whose provider timestamp is older than the updatedAt
\* of the stored record is dropped with 'Transaction already updated': the
\* store and the ledger counters are exactly what they were.
C13_StaleUpdatedWritesNothing ==
  [][\A h \in Handlers :
       (/\ FinishesEvent(h, "TransactionUpdated")
        /\ handlers[h].transaction # NoTx
        /\ handlers[h].event.updatedAt < handlers[h].transaction.updatedAt)
       => /\ db' = db
          /\ nextId' = nextId
          /\ purchases' = purchases
          /\ transfers' = transfers
          /\ last'.outcome = "Transaction already updated"]_vars

\* C13 witness: an Updated event was dropped as stale on a row written at a
\* later local time than the event's timestamp
C13_Witness ==
  /\ last.eventType = "TransactionUpdated"
  /\ last.outcome = "Transaction already updated"
  /\ \E i \in Ids : db[i] # NoTx /\ db[i].updatedAt > 0 /\ db[i].status = last.prior

\* C14: a Created event for a provider id that has a stored transaction (in any
\* status) fails with 'Transaction already exists' and leaves the store
\* unchanged; for a provider id without one it inserts exactly one row, with
\* status Created, and every row stored under another provider id is as it was.
C14_CreatedInsertsOnceElseFails ==
  [][\A h \in Handlers :
       FinishesEvent(h, "TransactionCreated")
       => IF RowsFor(db, handlers[h].event.id) # {}
            THEN /\ db' = db
                 /\ nextId' = nextId
                 /\ last'.outcome = "Transaction already exists"
            ELSE /\ InsertsOne(handlers[h].event, Created)
                 /\ Cardinality(RowsFor(db', handlers[h].event.id)) = 1
                 /\ last'.outcome = "ok"]_vars

\* C14 witness: with an ErrorRecoverable row stored under T1, a Created event
\* for T2 inserted a Created row and the T1 row is still there
C14_Witness ==
  /\ last.eventType = "TransactionCreated"
  /\ last.outcome = "ok"
  /\ \E i, j \in Ids :
       /\ db[i].providerId = "T1" /\ db[i].status = ErrorRecoverable
       /\ db[j].providerId = "T2" /\ db[j].status = Created /\ last.txId = j

\* C15: a PaymentFailed event changes the stored status only when the record is
\* Created or Processing, to ErrorRecoverable when the first payment's error
\* code is 'declined' and to Error for any other or missing code; on a Success,
\* Error or ErrorRecoverable record it is dropped with the invalid-status
\* warning and the store is unchanged.
C15_PaymentFailedFromCreatedOrProcessing ==
  [][\A h \in Handlers :
       (FinishesEvent(h, "TransactionPaymentFailed") /\ handlers[h].transaction # NoTx)
       => LET transaction == handlers[h].transaction
              ev == handlers[h].event
          IN IF transaction.status \in {Created, Processing}
               THEN /\ db'[transaction.id].status =
                         (IF ev.errorCode = "declined" THEN ErrorRecoverable ELSE Error)
                    /\ db'[transaction.id].value = db[transaction.id].value
                    /\ db'[transaction.id].receiverId = db[transaction.id].receiverId
                    /\ \A j \in Ids \ {transaction.id} : db'[j] = db[j]
               ELSE /\ db' = db
                    /\ last'.outcome = "Transaction with invalid status"]_vars

\* C15 witness: a PaymentFailed event without an error code took a Processing
\* row to Error
C15_Witness ==
  /\ last.eventType = "TransactionPaymentFailed"
  /\ last.prior = Processing
  /\ last.txId \in Ids
  /\ db[last.txId].status = Error
  /\ db[last.txId].error = "unknown"

\* C16: an Updated event that is not stale, for a provider id with a stored
\* record, changes the status of no stored record and inserts none, whatever
\* the record's status and the event's sub-status.
C16_UpdatedKeepsStoredStatus ==
  [][\A h \in Handlers :
       (/\ FinishesEvent(h, "TransactionUpdated")
        /\ handlers[h].transaction # NoTx
        /\ ~(handlers[h].event.updatedAt < handlers[h].transaction.updatedAt))
       => /\ \A i \in Ids : db'[i].status = db[i].status
          /\ nextId' = nextId]_vars

\* C16 witness: an Updated event was applied to a Processing row (it wrote the
\* value 700) and the row is still Processing
C16_Witness ==
  /\ last.eventType = "TransactionUpdated"
  /\ last.outcome = "ok"
  /\ last.prior = Processing
  /\ last.txId \in Ids
  /\ db[last.txId].status = Processing
  /\ db[last.txId].value = 700

\* C17: an Updated event for a provider id without a stored record inserts one
\* record, Created for sub-status 'draft' and Processing for 'ready'; with any
\* other sub-status it inserts and writes nothing.
C17_UpdatedInfersStatusWhenAbsent ==
  [][\A h \in Handlers :
       (FinishesEvent(h, "TransactionUpdated") /\ handlers[h].transaction = NoTx)
       => CASE handlers[h].event.status = "draft" ->
                 InsertsOne(handlers[h].event, Created)
            [] handlers[h].event.status = "ready" ->
                 InsertsOne(handlers[h].event, Processing)
            [] OTHER ->
                 /\ db' = db
                 /\ nextId' = nextId
                 /\ last'.outcome = "Transaction update skipped"]_vars

\* C17 witness: an Updated event on an empty store inserted a Processing row
C17_Witness ==
  /\ last.eventType = "TransactionUpdated"
  /\ last.outcome = "ok"
  /\ last.prior = Undefined
  /\ last.txId \in Ids
  /\ db[last.txId].status = Processing

\* C18 (as claimed, counting a logged rejection as well as a thrown error): a
\* Ready, PaymentFailed, Updated or Completed event whose user id differs from
\* the receiverId of the stored record does not go through, and the store is
\* unchanged.
C18_ReceiverMismatchRejected ==
  [][\A h \in Handlers :
       (/\ Finishes(h)
        /\ handlers[h].event.eventType \in
             {"TransactionReady", "TransactionPaymentFailed",
              "TransactionUpdated", "TransactionCompleted"}
        /\ handlers[h].transaction # NoTx
        /\ handlers[h].transaction.receiverId # handlers[h].event.user_id)
       => /\ db' = db
          /\ last'.outcome # "ok"]_vars

\* C19 (as claimed): when no record is stored for its provider id, a Ready,
\* PaymentFailed, Updated or Completed event that does not fail at the ledger
\* leaves a record stored for that id; and no step removes a stored record.
C19_EveryEventClassCreatesLazily ==
  [][/\ \A i \in Ids : db[i] # NoTx => db'[i] # NoTx
     /\ \A h \in Handlers :
          (/\ Finishes(h)
           /\ handlers[h].event.eventType \in
                {"TransactionReady", "TransactionPaymentFailed",
                 "TransactionUpdated", "TransactionCompleted"}
           /\ handlers[h].transaction = NoTx
           /\ last'.outcome # "Ledger error")
          => RowsFor(db', handlers[h].event.id) # {}]_vars

\* C19 (amended): when no record is stored for its provider id, a Ready event
\* inserts one (Processing), an Updated event inserts one for sub-status 'draft'
\* (Created) or 'ready' (Processing) and nothing otherwise, a Completed event
\* inserts one (Success) when its ledger purchase goes through and nothing
\* otherwise, and a PaymentFailed event raises 'Transaction not found' and
\* inserts nothing; no step removes a stored record or changes its id or
\* provider id.
C19_LazyCreationExceptPaymentFailed ==
  [][/\ \A i \in Ids :
          db[i] # NoTx => (db'[i].id = db[i].id /\ db'[i].providerId = db[i].providerId)
     /\ \A h \in Handlers :
          (Finishes(h) /\ handlers[h].transaction = NoTx)
          => LET ev == handlers[h].event
             IN CASE ev.eventType = "TransactionReady" -> InsertsOne(ev, Processing)
                  [] ev.eventType = "TransactionUpdated" ->
                       IF ev.status = "draft" THEN InsertsOne(ev, Created)
                       ELSE IF ev.status = "ready" THEN InsertsOne(ev, Processing)
                       ELSE db' = db
                  [] ev.eventType = "TransactionCompleted" ->
                       IF transfers' # transfers THEN InsertsOne(ev, Success)
                       ELSE db' = db /\ last'.outcome = "Ledger error"
                  [] ev.eventType = "TransactionPaymentFailed" ->
                       db' = db /\ last'.outcome = "Transaction not found"
                  [] OTHER -> TRUE]_vars

\* C19 witness: a Completed event was the first event seen for its provider id
\* and left a Success row
C19_Witness ==
  /\ last.eventType = "TransactionCompleted"
  /\ last.prior = Undefined
  /\ deliveries = 1
  /\ last.txId \in Ids
  /\ db[last.txId].status = Success
  /\ transfers[last.txId] = 1

\* C20: every webhook request that is received is eventually answered
\* 'Processed webhook event', whatever its signature, event type and handler
\* outcome.
C20_EveryRequestAcknowledged ==
  \A k \in Requests :
    (requests[k].pc = "received")
    ~> (requests[k].pc = "sent" /\ requests[k].response = "Processed webhook event")

\* C20 witness: a request whose handler threw ('Transaction not found', caught
\* and logged as 'Paddle generic error') was answered
C20_Witness ==
  \E k \in Requests :
    /\ requests[k].response = "Processed webhook event"
    /\ requests[k].signature = "valid"
    /\ requests[k].logged = "Paddle generic error"
    /\ last.eventType = "TransactionPaymentFailed"
    /\ last.outcome = "Transaction not found"

\* request k's awaited handler, dispatched for an event of the given type,
\* ends in this step
HandlerEnds(k, eventType) ==
  /\ requests[k].pc = "handler"
  /\ requests[k].event.eventType = eventType
  /\ requests'[k].pc = "send"

\* C21 (as claimed): no handler failure escapes the route (no promise started
\* by the route rejects unhandled), and when the acknowledgement is sent the
\* work the route started for the request has finished or failed.
C21_NoFailureEscapesAndWorkDoneBeforeAck ==
  \A k \in Requests :
    /\ requests[k].floating # "rejected"
    /\ requests[k].pc = "sent" => requests[k].floating # "pending"

\* C22: a request whose signature or body is missing, or whose signature does
\* not verify, never reaches the switch or a handler and starts no promise, and
\* no step of it changes the stored transactions, the ledger counters or the
\* users' subscription flags.
C22_UnverifiedRequestMutatesNothing ==
  [][\A k \in Requests :
       (/\ requests[k].pc # "none"
        /\ requests[k].signature # "valid" \/ ~requests[k].rawBody
        /\ requests'[k] # requests[k])
       => /\ requests'[k].pc \in {"send", "sent"}
          /\ requests'[k].floating = "none"
          /\ requests'[k].transaction = NoTx
          /\ requests'[k].logged \in {"Signature missing in header",
                                      "Paddle generic error"}
          /\ UNCHANGED <<db, nextId, purchases, transfers, last, users>>]_vars

\* C22 witness: a Completed event under a signature that does not verify was
\* logged and is about to be acknowledged; the store is empty
C22_Witness ==
  \E k \in Requests :
    /\ requests[k].pc = "send"
    /\ requests[k].signature = "invalid"
    /\ requests[k].event.eventType = "TransactionCompleted"
    /\ requests[k].logged = "Paddle generic error"
    /\ Rows(db) = {}
    /\ last = NoOutcome

\* C23: when a Completed handler's updateUserTransaction did not throw and the
\* ledger purchase went through, the row is stored with status Success and the
\* transfer is counted, whether or not the analytics event or the Slack
\* notification failed (the route then logs 'Paddle generic error').
C23_SideEffectFailureKeepsReconciliation ==
  [][\A k \in Requests :
       (/\ HandlerEnds(k, "TransactionCompleted")
        /\ purchases' # purchases
        /\ last'.outcome # "Ledger error")
       => \E i \in Ids :
            /\ purchases'[i] = purchases[i] + 1
            /\ transfers'[i] = transfers[i] + 1
            /\ db'[i].status = Success
            /\ db'[i].value = requests[k].event.data.cores
            /\ db'[i].receiverId = requests[k].event.data.user_id]_vars

\* C23 witness: the analytics event of a Completed request failed (logged by
\* the route) while the handler itself ended well: the row is Success and the
\* transfer is made
C23_Witness ==
  \E k \in Requests :
    /\ requests[k].logged = "Paddle generic error"
    /\ last.eventType = "TransactionCompleted"
    /\ last.outcome = "ok"
    /\ last.txId \in Ids
    /\ db[last.txId].status = Success
    /\ transfers[last.txId] = 1


\* C27: the entity updateUserTransaction returns carries the status and the
\* value that the call left in the store; called on an existing row with a
\* nextStatus, the returned status is that nextStatus.
C27_ReturnedEntityIsStoredEntity ==
  call.stage = "returned"
    => /\ call.ret.status = call.stored.status
       /\ call.ret.value = call.stored.value
       /\ (call.transaction # NoTx /\ call.nextStatus # Undefined)
            => call.ret.status = call.nextStatus

\* C26: updateStoreKitUserSubscription never changes the stored
\* appAccountToken, whatever the status and the data: the token stored after
\* the call is the token stored before it.
C26_AppAccountTokenNeverChanges ==
  apple.stage = "done" => apple.stored.appAccountToken = apple.before.appAccountToken

\* C24: with the circuit breaker open, getBalance returns the cached balance
\* when there is one and amount 0 otherwise, without an error, without a
\* ledger request and without writing the cache; an award whose transferCores
\* meets the open circuit fails and leaves no row, no award link and no
\* transfer; and no committed award row is without its transfer.
C24_OpenCircuitDegradesReadsFailsTransfers ==
  [][/\ \A u \in Users :
          (breaker = "open" /\ out'.op = "getBalance" /\ out'.user = u)
          => /\ out'.err = ""
             /\ ~out'.ledgerCalled
             /\ out'.amount = IF cache[u] # NoBalance THEN cache[u] ELSE 0
             /\ cache' = cache
     /\ \A k \in Awards :
          (breaker = "open" /\ awards[k].pc = "tx" /\ awards'[k].pc # "tx")
          => /\ awards'[k].pc = "failed"
             /\ awards'[k].error \in {"BrokenCircuitError", "Not allowed for you yet"}
             /\ ~awards'[k].ledgerCalled
             /\ UNCHANGED <<userTransactions, userPosts, ledger, transferred, pending>>
     /\ \A k \in Awards : userTransactions'[k] # NoAwardTx => k \in transferred']_vars

C24_Witness ==
  /\ breaker = "open"
  /\ out.op = "getBalance" /\ out.amount = 0 /\ out.err = "" /\ ~out.ledgerCalled
  /\ cache[out.user] = NoBalance
  /\ \E k \in Awards : awards[k].pc = "failed" /\ awards[k].error = "BrokenCircuitError"

\* C25: getBalance with a cache entry returns the entry and makes no ledger
\* request; without an entry it goes to the ledger (short of an open circuit)
\* and a value it fetched is stored under the user's key and returned;
\* expireBalanceCache leaves no entry, so the next getBalance goes to the
\* ledger; updateBalanceCache(v) leaves the entry v, so the next getBalance
\* returns v without a ledger request.
C25_GetOrFetchCache ==
  [][\A u \in Users :
       /\ (out'.op = "getBalance" /\ out'.user = u /\ cache[u] # NoBalance)
          => /\ out'.amount = cache[u]
             /\ out'.err = ""
             /\ ~out'.ledgerCalled
             /\ cache' = cache
       /\ (out'.op = "getBalance" /\ out'.user = u /\ cache[u] = NoBalance)
          => /\ out'.ledgerCalled \/ breaker = "open"
             /\ (out'.ledgerCalled /\ out'.err = "")
                  => /\ out'.amount = ledger[u]
                     /\ cache' = [cache EXCEPT ![u] = ledger[u]]
       /\ (out'.op = "expireBalanceCache" /\ out'.user = u)
          => cache' = [cache EXCEPT ![u] = NoBalance]
       /\ (out'.op = "updateBalanceCache" /\ out'.user = u)
          => cache' = [cache EXCEPT ![u] = out'.amount]]_vars

\* an entry only updateBalanceCache can have written is served from the cache
C25_Witness ==
  /\ out.op = "getBalance" /\ out.user = "u1" /\ ~out.ledgerCalled
  /\ out.amount = AwardValue
  /\ cache["u1"] = AwardValue
  /\ cache["u2"] = 0

\* C28: a user awards a post at most once: of the awardPost calls for one
\* post, whatever their interleaving, at most one commits a transaction and
\* performs a ledger transfer.
C28_PostAwardedAtMostOnce ==
  \A p \in Posts :
    Cardinality({k \in Awards : /\ awards[k].kind = "post"
                                /\ awards[k].entity = p
                                /\ awards[k].pc = "done"}) <= 1

\* C29: an award that failed leaves no UserTransaction row, no award link and
\* no transfer; an award whose receiver is the caller fails with 'Can not award
\* yourself' with no row created and no ledger request made.
C29_AwardsAllOrNothing ==
  \A k \in Awards :
    /\ awards[k].pc = "failed"
       => /\ userTransactions[k] = NoAwardTx
          /\ k \notin transferred
          /\ \A p \in Posts : userPosts[p] # k
    /\ (awards[k].pc # "none" /\ awards[k].receiver = Sender)
       => /\ awards[k].pc = "failed"
          /\ awards[k].error = "Can not award yourself"
          /\ ~awards[k].ledgerCalled

C29_Witness ==
  /\ \E k \in Awards : /\ awards[k].pc = "failed"
                       /\ awards[k].kind = "post"
                       /\ awards[k].error = "Ledger error"
                       /\ awards[k].ledgerCalled
  /\ \E k \in Awards : awards[k].error = "Can not award yourself"

\* C30: once transferCores has returned, the cache writes it started are
\* over, so both parties' entries hold the new balances, and no failure of a
\* cache write is left without a handler.
C30_CacheWrittenWhenTransferReturns ==
  /\ pending = {}
  /\ ~unhandled

====
